---- MODULE Spec2Model ----
(***************************************************************************)
(* Model of src/src/agent/graph.py: the task tree (Task, TaskTree), the    *)
(* planner (TaskPlanner), the executors (BaseExecutor, ExecutorManager)    *)
(* and the two workflow nodes (planning_node, execution_node).             *)
(*                                                                         *)
(* A task list is a sequence of task records; a Task object is named by    *)
(* its position in TaskTree.tasks (the code holds references to the same   *)
(* objects in ready_tasks, so a position is a faithful reference).         *)
(* TaskTree.root_task is the same object as tasks[0], here tasks[1].       *)
(***************************************************************************)
EXTENDS Integers, Sequences, FiniteSets, TLC

VARIABLES
    plan,       \* what the plan generator does for this request (input)
    tasks,      \* task_tree.tasks; <<>> while state["task_tree"] is unset
    pc,         \* position of the workflow
    ready,      \* ready_tasks of the current loop iteration (positions)
    k,          \* position of the for loop inside ready_tasks
    stage,      \* state["workflow_stage"]
    report,     \* the final report built by execution_node
    executed,   \* history: position -> outcomes of the agent calls made for it
    updates     \* number of update_task_status calls made on a bare tree

vars == <<plan, tasks, pc, ready, k, stage, report, executed, updates>>

----------------------------------------------------------------------------
(* Values *)

\* Python's None (Optional[str] fields, default argument result=None).
None == "<None>"

\* task_elem.find(tag) returned None: the element is not there.
Absent == "<absent>"

\* Python truthiness of an Optional[str]: None and "" are falsy.
Truthy(s) == s # None /\ s # ""

\* `a or b` on Optional[str].
OrElse(a, b) == IF Truthy(a) THEN a ELSE b

\* state["user_query"], the request text.
user_query == "analyze X"

----------------------------------------------------------------------------
(* Bounds *)

\* Largest number of <task> elements in a generated plan.
MaxSub == 2

\* Largest number of update_task_status calls made on a bare tree.
MaxUpdates == 2

----------------------------------------------------------------------------
(* Data model: class Task, class TaskTree *)

\* Task(id=..., name=..., description=..., executor_type=..., dependencies=...,
\* parameters=...): status defaults to "pending", result to None.
Task(id, name, description, executor_type, dependencies, parameters) ==
    [id |-> id, name |-> name, description |-> description,
     executor_type |-> executor_type, dependencies |-> dependencies,
     parameters |-> parameters, status |-> "pending", result |-> None]

\* all_deps_completed with the status test left out: a dependency counts as
\* soon as some task has its id.
AllDepsPresent(ts, task) ==
    IF task.dependencies # <<>>
    THEN \A n \in DOMAIN task.dependencies :
            \E j \in DOMAIN ts : ts[j].id = task.dependencies[n]
    ELSE TRUE

\* all(any(t.id == dep_id and t.status == "completed" for t in self.tasks)
\*     for dep_id in task.dependencies) if task.dependencies else True
all_deps_completed(ts, task) ==
    IF task.dependencies # <<>>
    THEN \A n \in DOMAIN task.dependencies :
            \E j \in DOMAIN ts :
                ts[j].id = task.dependencies[n] /\ ts[j].status = "completed"
    ELSE TRUE

\* The for loop of get_ready_tasks from position i on: appends, in list
\* order, every pending task whose dependencies are all completed.
RECURSIVE ReadyFrom(_, _)
ReadyFrom(ts, i) ==
    IF i > Len(ts) THEN <<>>
    ELSE (IF ts[i].status = "pending" /\ all_deps_completed(ts, ts[i])
          THEN <<i>> ELSE <<>>) \o ReadyFrom(ts, i + 1)

\* get_ready_tasks that looks at no status but the task's own: a pending
\* task is ready only when it declares no dependency.
ReadyWithoutDeps(ts) ==
    SelectSeq([i \in DOMAIN ts |-> i],
              LAMBDA i : ts[i].status = "pending" /\ ts[i].dependencies = <<>>)

\* TaskTree.get_ready_tasks: the ready tasks, as positions in self.tasks.
get_ready_tasks(ts) == ReadyFrom(ts, 1)

\* The task the for loop of update_task_status stops at: the first one
\* whose id is task_id; 0 when the loop ends without a match.
FirstWithId(ts, task_id) ==
    IF \E i \in DOMAIN ts : ts[i].id = task_id
    THEN CHOOSE i \in DOMAIN ts :
            ts[i].id = task_id /\ \A j \in 1..(i - 1) : ts[j].id # task_id
    ELSE 0

\* update_task_status with the result assignment left out.
UpdateStatusOnly(ts, task_id, status, result) ==
    LET i == FirstWithId(ts, task_id) IN
    IF i = 0 THEN ts ELSE [ts EXCEPT ![i] = [@ EXCEPT !.status = status]]

\* update_task_status without its return: the loop goes on after the first
\* match and every task with the id is assigned.
UpdateEveryMatch(ts, task_id, status, result) ==
    [i \in DOMAIN ts |->
        IF ts[i].id = task_id
        THEN [ts[i] EXCEPT !.status = status,
                           !.result = IF Truthy(result) THEN result ELSE @]
        ELSE ts[i]]

\* update_task_status that closes the task: the dependencies of the updated
\* task are cleared with the assignment of the status.
UpdateClearingDeps(ts, task_id, status, result) ==
    LET i == FirstWithId(ts, task_id) IN
    IF i = 0 THEN ts
    ELSE [ts EXCEPT ![i] =
            [@ EXCEPT !.status = status,
                      !.result = IF Truthy(result) THEN result ELSE @,
                      !.dependencies = <<>>]]

\* update_task_status as an upsert: an id that no task has adds a task.
UpdateOrInsert(ts, task_id, status, result) ==
    LET i == FirstWithId(ts, task_id) IN
    IF i = 0
    THEN Append(ts, [Task(task_id, "", "", "", <<>>, <<>>)
                       EXCEPT !.status = status])
    ELSE [ts EXCEPT ![i] =
            [@ EXCEPT !.status = status,
                      !.result = IF Truthy(result) THEN result ELSE @]]

\* TaskTree.update_task_status(task_id, status, result): sets the status of
\* the first task with that id, and its result when result is truthy; no
\* task has the id: nothing changes.
update_task_status(ts, task_id, status, result) ==
    LET i == FirstWithId(ts, task_id) IN
    IF i = 0 THEN ts
    ELSE [ts EXCEPT ![i] =
            [@ EXCEPT !.status = status,
                      !.result = IF Truthy(result) THEN result ELSE @]]

----------------------------------------------------------------------------
(* Planner: class TaskPlanner *)

(* The plan generator's answer, as the parser sees it:                      *)
(*   form      "raise"    self.chain.invoke raised                          *)
(*             "xml"      the stripped text starts with '<' and is one      *)
(*                        well-formed document                              *)
(*             "embedded" prose around a well-formed <task_tree> fragment   *)
(*             "garbage"  no '<' at the start and no <task_tree> marker     *)
(*             "broken"   starts with '<' but is not well-formed            *)
(*   has_tasks the document has a <tasks> element                           *)
(*   elems     its <task> children; each field is the element's text, ""    *)
(*             for an empty element (ElementTree gives text None), Absent   *)
(*             for no element; dependencies is the text cut at the commas   *)
(*             (<<>> for no text), parameters the children as <<tag, text>> *)

\* d.strip() on the pieces of the dependency text the model uses.
Strip(d) ==
    CASE d = " A" -> "A"
      [] d = " B" -> "B"
      [] d = " root" -> "root"
      [] d = " " -> ""
      [] OTHER -> d

\* The comprehension without strip: the pieces are kept as they are cut.
RawPieces(pieces) == pieces

\* [d.strip() for d in deps_elem.text.split(',') if d.strip()]
RECURSIVE StripPieces(_)
StripPieces(pieces) ==
    IF pieces = <<>> THEN <<>>
    ELSE (IF Strip(Head(pieces)) # "" THEN <<Strip(Head(pieces))>> ELSE <<>>)
         \o StripPieces(Tail(pieces))

\* deps = []; if deps_elem is not None and deps_elem.text: deps = [...]
ParseDeps(dependencies) ==
    IF dependencies = Absent THEN <<>> ELSE StripPieces(dependencies)

\* params = {}; for param in params_elem: params[param.tag] = param.text
\* (a later child with the same tag overwrites an earlier one).
ParseParams(parameters) ==
    IF parameters = Absent THEN <<>>
    ELSE [t \in {parameters[n][1] : n \in DOMAIN parameters} |->
            LET last == CHOOSE n \in DOMAIN parameters :
                            /\ parameters[n][1] = t
                            /\ \A m \in DOMAIN parameters :
                                 parameters[m][1] = t => m <= n
            IN parameters[last][2]]

\* str(uuid.uuid4()) for the n-th <task> element: a fresh id, different from
\* every id a plan text holds and from every other generated one.
Uuid(n) == <<"uuid-1", "uuid-2", "uuid-3", "uuid-4", "uuid-5", "uuid-6">>[n]

\* The root task both _parse_task_tree_xml and _create_default_task_tree
\* synthesize (name "Investment analysis" stands for the Chinese literal).
RootTask(query) ==
    Task("root", "Investment analysis", query, "coordinator", <<>>, <<>>)

\* The symbol chosen by _create_default_task_tree: "0700.HK" on both paths.
DefaultSymbol(query) == "0700.HK"

\* _create_default_task_tree with news_analysis made to wait for the data.
DefaultTreeNewsAfterData(query) ==
    LET symbol == DefaultSymbol(query) IN
    << RootTask(query),
       Task("data_collection", "Basic data collection",
            "collect basic financial and market data", "data_collector",
            <<>>, [symbol |-> symbol, period |-> "1y"]),
       Task("technical_analysis", "Technical analysis",
            "analyse technical indicators and chart patterns",
            "technical_analyst", <<"data_collection">>,
            [symbol |-> symbol, indicators |-> "MA,RSI,MACD"]),
       Task("news_analysis", "News analysis",
            "analyse news and market sentiment", "news_analyst",
            <<"data_collection">>, [keyword |-> "Tencent", days |-> 7]),
       Task("risk_assessment", "Risk assessment",
            "assess investment risk and potential return", "risk_assessor",
            <<"data_collection">>,
            [position_size |-> "medium", market_cap |-> "large"]),
       Task("report_generation", "Investment report generation",
            "combine all analyses into an investment advice",
            "report_generator",
            <<"technical_analysis", "news_analysis", "risk_assessment">>,
            <<>>) >>

\* TaskPlanner._create_default_task_tree: the fixed six-task list (names and
\* descriptions stand for the Chinese literals of the source).
create_default_task_tree(query) ==
    LET symbol == DefaultSymbol(query) IN
    << RootTask(query),
       Task("data_collection", "Basic data collection",
            "collect basic financial and market data", "data_collector",
            <<>>, [symbol |-> symbol, period |-> "1y"]),
       Task("technical_analysis", "Technical analysis",
            "analyse technical indicators and chart patterns",
            "technical_analyst", <<"data_collection">>,
            [symbol |-> symbol, indicators |-> "MA,RSI,MACD"]),
       Task("news_analysis", "News analysis",
            "analyse news and market sentiment", "news_analyst",
            <<>>, [keyword |-> "Tencent", days |-> 7]),
       Task("risk_assessment", "Risk assessment",
            "assess investment risk and potential return", "risk_assessor",
            <<"data_collection">>,
            [position_size |-> "medium", market_cap |-> "large"]),
       Task("report_generation", "Investment report generation",
            "combine all analyses into an investment advice",
            "report_generator",
            <<"technical_analysis", "news_analysis", "risk_assessment">>,
            <<>>) >>

\* The Task built from the n-th <task> element (all four .text reads work).
ParseTask(e, n) ==
    Task(OrElse(e.id, Uuid(n)),
         OrElse(e.name, "default task"),
         OrElse(e.description, "default description"),
         OrElse(e.executor_type, "data_collector"),
         ParseDeps(e.dependencies),
         ParseParams(e.parameters))

\* task_elem.find(tag).text raises AttributeError: a field element is absent.
FieldMissing(e) ==
    \/ e.id = Absent
    \/ e.name = Absent
    \/ e.description = Absent
    \/ e.executor_type = Absent

\* ET.fromstring(xml_text) raises: nothing well-formed to parse.
Unparseable(p) == p.form \in {"garbage", "broken"}

\* TaskPlanner._parse_task_tree_xml: the root first, then one task per <task>
\* element in document order; any exception gives the default tree.
parse_task_tree_xml(p, query) ==
    IF Unparseable(p) THEN create_default_task_tree(query)
    ELSE IF ~p.has_tasks THEN <<RootTask(query)>>
    ELSE IF \E n \in DOMAIN p.elems : FieldMissing(p.elems[n])
         THEN create_default_task_tree(query)
    ELSE <<RootTask(query)>> \o [n \in DOMAIN p.elems |-> ParseTask(p.elems[n], n)]

\* create_task_tree without its try/except: when the generator raises no
\* tree is returned.
CreateTaskTreeUnguarded(p, query) ==
    IF p.form = "raise" THEN <<>> ELSE parse_task_tree_xml(p, query)

\* TaskPlanner.create_task_tree: the parsed answer, or the default tree when
\* the generator raises.
create_task_tree(p, query) ==
    IF p.form = "raise" THEN create_default_task_tree(query)
    ELSE parse_task_tree_xml(p, query)

----------------------------------------------------------------------------
(* Executors: BaseExecutor.execute, ExecutorManager.execute_task *)

(* What self.agent.invoke does for one call: it raises (with the text of   *)
(* the exception), or it returns messages whose last content is a text.    *)
AgentOutcomes ==
    { [raised |-> TRUE, text |-> "boom"],
      [raised |-> FALSE, text |-> "analysis"],
      [raised |-> FALSE, text |-> ""] }

\* f"execution failed: {str(e)}" (the source's literal prefix is Chinese).
FailureText(e) ==
    CASE e = "boom" -> "execution failed: boom"
      [] e = "" -> "execution failed: "
      [] OTHER -> "execution failed: ..."

(* The result of a call as execution_node sees it: the returned value, or  *)
(* the exception that left the call.                                       *)
Returned(text) == [raised |-> FALSE, value |-> text]
Raised(text) == [raised |-> TRUE, value |-> text]

\* BaseExecutor.execute: try: return the last message's content;
\* except Exception as e: return the failure text.
execute(task, outcome) ==
    IF outcome.raised THEN Returned(FailureText(outcome.text))
    ELSE Returned(outcome.text)

\* ExecutorManager.get_executor: the executor registered for the type, the
\* data collector for any other type.
Executors ==
    {"data_collector", "technical_analyst", "news_analyst", "risk_assessor",
     "report_generator"}

get_executor(executor_type) ==
    IF executor_type \in Executors THEN executor_type ELSE "data_collector"

\* ExecutorManager.execute_task: the executor for the task's type runs it;
\* every executor class inherits BaseExecutor.execute.
execute_task(task, outcome) ==
    LET executor == get_executor(task.executor_type) IN
    IF executor \in Executors THEN execute(task, outcome)
    ELSE Raised("KeyError")

----------------------------------------------------------------------------
(* Workflow: planning_node, execution_node *)

\* The selection without its status test: every task that holds a result.
TasksWithResult(ts) ==
    SelectSeq([i \in DOMAIN ts |-> i], LAMBDA i : Truthy(ts[i].result))

\* completed_tasks = [t for t in task_tree.tasks if t.status == "completed" and t.result]
completed_tasks(ts) ==
    SelectSeq([i \in DOMAIN ts |-> i],
              LAMBDA i : ts[i].status = "completed" /\ Truthy(ts[i].result))

\* all_results: one section (name, result) per task of completed_tasks that
\* is not the root, in list order.
all_results(ts) ==
    LET done == SelectSeq(completed_tasks(ts), LAMBDA i : ts[i].id # "root")
    IN [n \in DOMAIN done |-> <<ts[done[n]].name, ts[done[n]].result>>]

\* The parts of the final report that depend on the task tree: the count in
\* the overview line and the sections.
final_report(ts) ==
    [count |-> Len(completed_tasks(ts)), sections |-> all_results(ts)]

NoReport == [count |-> 0, sections |-> <<>>]

\* No agent call has been made for any task.
NoCalls(ts) == [i \in DOMAIN ts |-> {}]

\* planning_node: task_tree = task_planner.create_task_tree(user_query).
Planning ==
    /\ pc = "planning"
    /\ tasks' = create_task_tree(plan, user_query)
    /\ executed' = NoCalls(tasks')
    /\ stage' = "planning_complete"
    /\ pc' = "loop"
    /\ UNCHANGED <<plan, ready, k, report, updates>>

\* execution_node, head of the while loop with a non-empty ready_tasks: the
\* for loop starts at its first task.
Schedule ==
    /\ pc = "loop"
    /\ get_ready_tasks(tasks) # <<>>
    /\ ready' = get_ready_tasks(tasks)
    /\ k' = 1
    /\ pc' = "batch"
    /\ UNCHANGED <<plan, tasks, stage, report, executed, updates>>

\* execution_node, head of the while loop with no ready task: break, build
\* the final report, return workflow_stage "complete".
Finish ==
    /\ pc = "loop"
    /\ get_ready_tasks(tasks) = <<>>
    /\ ready' = <<>>
    /\ report' = final_report(tasks)
    /\ stage' = "complete"
    /\ pc' = "done"
    /\ UNCHANGED <<plan, tasks, k, executed, updates>>

\* A for loop over a batch that grows: the tasks that have become ready
\* since the batch was computed are appended to it.
AdvanceRefreshing ==
    LET fresh == SelectSeq(get_ready_tasks(tasks'),
                           LAMBDA i : \A n \in DOMAIN ready : ready[n] # i)
        batch == ready \o fresh
    IN IF k < Len(batch)
       THEN k' = k + 1 /\ pc' = "batch" /\ ready' = batch
       ELSE k' = 0 /\ pc' = "loop" /\ ready' = <<>>

\* The for loop moves to the next task of ready_tasks, or the while loop to
\* its next iteration.
Advance ==
    IF k < Len(ready)
    THEN k' = k + 1 /\ pc' = "batch" /\ ready' = ready
    ELSE k' = 0 /\ pc' = "loop" /\ ready' = <<>>

\* The for loop body without the root test: the root goes to an executor
\* like any other task.
RootThroughExecutor ==
    /\ pc = "batch"
    /\ tasks[ready[k]].id = "root"
    /\ \E outcome \in AgentOutcomes :
         LET task == tasks[ready[k]]
             r == execute_task(task, outcome)
         IN /\ tasks' = update_task_status(tasks, task.id, "completed", r.value)
            /\ executed' = [executed EXCEPT ![ready[k]] = @ \cup {outcome}]
    /\ Advance
    /\ UNCHANGED <<plan, stage, report, updates>>

\* execution_node, for loop body, task.id == "root": completed, no executor.
SkipRoot ==
    /\ pc = "batch"
    /\ tasks[ready[k]].id = "root"
    /\ tasks' = update_task_status(tasks, tasks[ready[k]].id, "completed", None)
    /\ Advance
    /\ UNCHANGED <<plan, stage, report, executed, updates>>

\* execution_node, for loop body, any other task: the executor is called;
\* its value completes the task, an exception fails it. (The print calls
\* around the executor call are taken to succeed.)
Dispatch ==
    /\ pc = "batch"
    /\ tasks[ready[k]].id # "root"
    /\ \E outcome \in AgentOutcomes :
         LET task == tasks[ready[k]]
             r == execute_task(task, outcome)
         IN /\ tasks' = IF r.raised
                        THEN update_task_status(tasks, task.id, "failed", r.value)
                        ELSE update_task_status(tasks, task.id, "completed", r.value)
            /\ executed' = [executed EXCEPT ![ready[k]] = @ \cup {outcome}]
    /\ Advance
    /\ UNCHANGED <<plan, stage, report, updates>>

----------------------------------------------------------------------------
(* Inputs: the answers of the plan generator the model explores *)

\* Texts of the <id> element: empty, the root's id, two ordinary ids.
IdTexts == {"", "root", "A", "B"}

\* Texts of the <dependencies> element, cut at the commas: none, one id, a
\* dangling id, two ids with a blank after the comma, a blank piece.
DepTexts ==
    { <<>>, <<"A">>, <<"B">>, <<"X">>, <<"A", " B">>, <<" ", " root">> }

\* A <task> element with all its fields.
Elem(id, dependencies) ==
    [id |-> id, name |-> "task", description |-> "work",
     executor_type |-> "news_analyst", dependencies |-> dependencies,
     parameters |-> << <<"symbol", "X">> >>]

\* A <task> element whose fields are there but empty, with no
\* <dependencies> and no <parameters>; one that lacks its <name>.
EmptyElem ==
    [id |-> "", name |-> "", description |-> "", executor_type |-> "",
     dependencies |-> Absent, parameters |-> Absent]

NamelessElem == [Elem("A", <<>>) EXCEPT !.name = Absent]

Elems ==
    {Elem(id, d) : id \in IdTexts, d \in DepTexts} \cup {EmptyElem, NamelessElem}

ElemSeqs == UNION {[1..n -> Elems] : n \in 0..MaxSub}

Plans ==
    {[form |-> "xml", has_tasks |-> TRUE, elems |-> es] : es \in ElemSeqs}
    \cup
    {[form |-> f, has_tasks |-> TRUE, elems |-> <<Elem("A", <<>>)>>] :
        f \in {"raise", "embedded", "garbage", "broken"}}
    \cup
    {[form |-> "xml", has_tasks |-> FALSE, elems |-> <<>>]}

----------------------------------------------------------------------------
(* The workflow: START -> planning -> execution -> END *)

Init ==
    /\ plan \in Plans
    /\ tasks = <<>>
    /\ pc = "planning"
    /\ ready = <<>>
    /\ k = 0
    /\ stage = "start"
    /\ report = NoReport
    /\ executed = <<>>
    /\ updates = 0

Next == Planning \/ Schedule \/ Finish \/ SkipRoot \/ Dispatch

Spec == Init /\ [][Next]_vars

\* The interpreter always takes the workflow's next step, and every call of
\* an executor returns or raises.
FairSpec == Spec /\ WF_vars(Next)

----------------------------------------------------------------------------
(* The task tree on its own: a tree fresh from the planner, on which       *)
(* update_task_status and get_ready_tasks are called with any arguments.   *)

TreeElems ==
    {Elem(id, d) : id \in {"A", "B"},
                   d \in { <<>>, <<"A">>, <<"X">>, <<"A", " B">> }}

TreePlans ==
    {[form |-> "xml", has_tasks |-> TRUE, elems |-> es] :
        es \in UNION {[1..n -> TreeElems] : n \in 1..MaxSub}}

\* Arguments of update_task_status: an id (one of them of no task), a
\* status, a result.
UpdateIds == {"root", "A", "B", "Z"}
Statuses == {"pending", "completed", "failed"}
UpdateResults == {None, "", "r"}

TreeInit ==
    /\ plan \in TreePlans
    /\ tasks = create_task_tree(plan, user_query)
    /\ pc = "tree"
    /\ ready = <<>>
    /\ k = 0
    /\ stage = "planning_complete"
    /\ report = NoReport
    /\ executed = NoCalls(tasks)
    /\ updates = 0

\* task_tree.update_task_status(task_id, status, result)
TreeUpdate ==
    /\ pc \in {"tree", "queried"}
    /\ updates < MaxUpdates
    /\ \E task_id \in UpdateIds, status \in Statuses, result \in UpdateResults :
         tasks' = update_task_status(tasks, task_id, status, result)
    /\ updates' = updates + 1
    /\ ready' = <<>>
    /\ pc' = "tree"
    /\ UNCHANGED <<plan, k, stage, report, executed>>

\* ready_tasks = task_tree.get_ready_tasks()
TreeReady ==
    /\ pc = "tree"
    /\ ready' = get_ready_tasks(tasks)
    /\ pc' = "queried"
    /\ UNCHANGED <<plan, tasks, k, stage, report, executed, updates>>

TreeNext == TreeUpdate \/ TreeReady

TreeSpec == TreeInit /\ [][TreeNext]_vars

----------------------------------------------------------------------------
(* Properties *)

Range(seq) == {seq[n] : n \in DOMAIN seq}

\* The ids a task declares as dependencies.
DepIds(task) == Range(task.dependencies)

\* The statuses of the tasks that carry the id.
StatusesOf(ts, id) == {ts[j].status : j \in {j \in DOMAIN ts : ts[j].id = id}}

(* C1: get_ready_tasks returns exactly the tasks that are pending and whose *)
(* every declared dependency id is the id of a completed task, each once:   *)
(* a returned task has no dependency id that is absent from the tree or     *)
(* carried only by pending or failed tasks, and every pending task without  *)
(* dependencies is returned.                                                *)
C1_ReadyExactlyPendingWithCompletedDeps ==
    pc = "queried" =>
        LET R == Range(ready) IN
        /\ R = {i \in DOMAIN tasks :
                  /\ tasks[i].status = "pending"
                  /\ \A d \in DepIds(tasks[i]) : "completed" \in StatusesOf(tasks, d)}
        /\ Len(ready) = Cardinality(R)
        /\ \A i \in R : \A d \in DepIds(tasks[i]) :
              /\ StatusesOf(tasks, d) # {}
              /\ ~(StatusesOf(tasks, d) \subseteq {"pending", "failed"})
        /\ \A i \in DOMAIN tasks :
              tasks[i].status = "pending" /\ tasks[i].dependencies = <<>> => i \in R

\* A query that returns some task while a pending task is held back by a
\* dependency on a failed task.
C1_Witness ==
    /\ pc = "queried"
    /\ ready # <<>>
    /\ \E i \in DOMAIN tasks \ Range(ready) :
          /\ tasks[i].status = "pending"
          /\ \E d \in DepIds(tasks[i]) : StatusesOf(tasks, d) = {"failed"}

\* The agent call made for task i raised at least once.
ProviderFailed(i) == \E o \in executed[i] : o.raised

\* The plan generator's answer makes the planner return the default tree.
UsesFallback(p) ==
    \/ p.form = "raise"
    \/ Unparseable(p)
    \/ p.has_tasks /\ \E n \in DOMAIN p.elems : FieldMissing(p.elems[n])

\* The task list has the task with this id, once, with these dependencies.
HasTask(ts, id, deps) ==
    /\ Cardinality({i \in DOMAIN ts : ts[i].id = id}) = 1
    /\ \A i \in DOMAIN ts : ts[i].id = id => ts[i].dependencies = deps

(* C2: the scheduler loop always terminates: every run reaches the          *)
(* iteration in which get_ready_tasks is empty and leaves the loop.         *)
C2_SchedulerTerminates == <>(pc = "done")

(* C3: a task whose agent invocation raised is recorded with status failed  *)
(* and the error text as its result; it does not end completed.             *)
C3_ProviderFailureMarksFailed ==
    \A i \in DOMAIN executed :
        (executed[i] # {} /\ \A o \in executed[i] : o.raised) =>
            /\ tasks[i].status = "failed"
            /\ \E o \in executed[i] : tasks[i].result = o.text

\* No two tasks of the list share an id.
IdsDistinct(ts) ==
    \A i \in DOMAIN ts : \A j \in DOMAIN ts : i # j => ts[i].id # ts[j].id

\* No run ever gives a task the status failed, whatever the providers do.
NoTaskIsEverFailed == \A i \in DOMAIN tasks : tasks[i].status # "failed"

(* C5: with two tasks that depend on each other still pending (A on B and  *)
(* B on A, ids distinct), the run ends with a starvation error, not as a    *)
(* completed run.                                                           *)
C5_CycleEndsInStarvationError ==
    (/\ pc = "done"
     /\ IdsDistinct(tasks)
     /\ \E i \in DOMAIN tasks : \E j \in DOMAIN tasks :
          /\ i # j
          /\ tasks[i].status = "pending" /\ tasks[j].status = "pending"
          /\ tasks[j].id \in DepIds(tasks[i])
          /\ tasks[i].id \in DepIds(tasks[j]))
    => stage # "complete"

(* C6 as stated: for every task, the root included, the result is set if    *)
(* and only if the status is completed or failed.                           *)
C6_ResultIffTerminal ==
    \A i \in DOMAIN tasks :
        (tasks[i].result # None) <=> (tasks[i].status \in {"completed", "failed"})

\* An executor call for a task with this id returned an empty text.
EmptyTextReturnedFor(id) ==
    \E j \in DOMAIN executed :
        /\ tasks[j].id = id
        /\ \E o \in executed[j] : ~o.raised /\ o.text = ""

(* C6 amended: a task whose result is set is completed or failed; a         *)
(* completed or failed task has a result unless it has the root's id (the   *)
(* root is completed without a result) or an executor returned an empty     *)
(* text for its id (an empty text is not stored).                           *)
C6_ResultOnlyIfTerminal ==
    \A i \in DOMAIN tasks :
        /\ tasks[i].result # None => tasks[i].status \in {"completed", "failed"}
        /\ (/\ tasks[i].status \in {"completed", "failed"}
            /\ tasks[i].id # "root"
            /\ ~EmptyTextReturnedFor(tasks[i].id))
           => tasks[i].result # None

\* The run is over with the root completed without a result, a task
\* completed without a result after an empty text, and a task with a result.
C6_Witness ==
    /\ pc = "done"
    /\ tasks[1].status = "completed" /\ tasks[1].result = None
    /\ \E i \in DOMAIN tasks :
          /\ tasks[i].id # "root" /\ tasks[i].status = "completed"
          /\ tasks[i].result = None
    /\ \E i \in DOMAIN tasks :
          tasks[i].status = "completed" /\ tasks[i].result # None

(* C7: a status only moves from pending to completed or failed, and once a  *)
(* task is completed or failed its status and result never change again.    *)
C7_TerminalStatusIsFinal ==
    [][\A i \in DOMAIN tasks :
          /\ tasks'[i].status # tasks[i].status =>
                tasks[i].status = "pending"
                /\ tasks'[i].status \in {"completed", "failed"}
          /\ tasks[i].status # "pending" =>
                tasks'[i].status = tasks[i].status
                /\ tasks'[i].result = tasks[i].result]_vars

(* C8: the task list the planner returns has pairwise distinct ids; no      *)
(* parsed subtask has the id of the root.                                   *)
C8_TaskIdsDistinct ==
    pc # "planning" => IdsDistinct(tasks)

(* C9: the planner's list starts with the root task, id root and no         *)
(* dependencies; the scheduler completes it before anything else happens    *)
(* and it is completed when the run ends; no executor is called for a task  *)
(* with the root's id.                                                      *)
C9_RootPresentAndAutoCompleted ==
    pc # "planning" =>
        /\ Len(tasks) >= 1
        /\ tasks[1].id = "root" /\ tasks[1].dependencies = <<>>
        /\ tasks[1].status \in {"pending", "completed"}
        /\ tasks[1].status = "pending" =>
              /\ pc \in {"loop", "batch"}
              /\ \A i \in DOMAIN tasks :
                    tasks[i].status = "pending" /\ executed[i] = {}
              /\ pc = "batch" => k = 1 /\ ready[1] = 1
        /\ pc = "done" => tasks[1].status = "completed"
        /\ \A i \in DOMAIN tasks : tasks[i].id = "root" => executed[i] = {}

\* The run is over, the root is completed and has no result, and an
\* executor ran for another task.
C9_Witness ==
    /\ pc = "done"
    /\ tasks[1].id = "root" /\ tasks[1].status = "completed"
    /\ executed[1] = {}
    /\ \E i \in DOMAIN tasks : executed[i] # {}

(* C10 as stated: in the fallback tree technical, news and risk each depend *)
(* on the data-collection task, and the report depends on all three.        *)
C10_FallbackTopologyAsStated ==
    (pc # "planning" /\ UsesFallback(plan)) =>
        /\ Len(tasks) = 6
        /\ HasTask(tasks, "root", <<>>)
        /\ HasTask(tasks, "data_collection", <<>>)
        /\ HasTask(tasks, "technical_analysis", <<"data_collection">>)
        /\ HasTask(tasks, "news_analysis", <<"data_collection">>)
        /\ HasTask(tasks, "risk_assessment", <<"data_collection">>)
        /\ HasTask(tasks, "report_generation",
                   <<"technical_analysis", "news_analysis", "risk_assessment">>)

(* C10 amended: the fallback tree is root and data collection without       *)
(* dependencies, technical and risk each depending on data collection,      *)
(* news without dependencies, and the report depending on technical, news   *)
(* and risk.                                                                *)
C10_FallbackTopology ==
    (pc # "planning" /\ UsesFallback(plan)) =>
        /\ Len(tasks) = 6
        /\ HasTask(tasks, "root", <<>>)
        /\ HasTask(tasks, "data_collection", <<>>)
        /\ HasTask(tasks, "technical_analysis", <<"data_collection">>)
        /\ HasTask(tasks, "news_analysis", <<>>)
        /\ HasTask(tasks, "risk_assessment", <<"data_collection">>)
        /\ HasTask(tasks, "report_generation",
                   <<"technical_analysis", "news_analysis", "risk_assessment">>)

\* The planner has answered an unparseable plan text with the default tree.
C10_Witness ==
    /\ pc = "loop"
    /\ plan.form = "garbage"
    /\ Len(tasks) = 6

\* With distinct ids a completed or failed task is never touched again.
TerminalStatusIsFinalWhenIdsDistinct ==
    [][IdsDistinct(tasks) =>
        \A i \in DOMAIN tasks :
            tasks[i].status # "pending" =>
                tasks'[i].status = tasks[i].status
                /\ tasks'[i].result = tasks[i].result]_vars

\* With distinct ids every run ends.
TerminatesWhenIdsDistinct == (pc # "planning" /\ IdsDistinct(tasks)) ~> (pc = "done")

----------------------------------------------------------------------------
(* The workflow on the answers that give the default tree *)

\* Answers of the plan generator that make the planner fall back: it
\* raises, the text is not parseable, a <task> lacks a field element.
FallbackPlans ==
    {[form |-> f, has_tasks |-> TRUE, elems |-> <<Elem("A", <<>>)>>] :
        f \in {"raise", "garbage", "broken"}}
    \cup
    {[form |-> "xml", has_tasks |-> TRUE, elems |-> <<NamelessElem>>]}

FallbackInit ==
    /\ plan \in FallbackPlans
    /\ tasks = <<>>
    /\ pc = "planning"
    /\ ready = <<>>
    /\ k = 0
    /\ stage = "start"
    /\ report = NoReport
    /\ executed = <<>>
    /\ updates = 0

\* The workflow always takes its next step (see FairSpec).
FallbackSpec == FallbackInit /\ [][Next]_vars /\ WF_vars(Next)

\* Every agent call made so far returned a non-empty text.
AllCallsSucceeded ==
    \A i \in DOMAIN executed :
        \A o \in executed[i] : ~o.raised /\ o.text # ""

\* The position of the task with this id (ids distinct).
IndexOf(ts, id) == CHOOSE i \in DOMAIN ts : ts[i].id = id

\* The final report has a section headed by the name of the task with the id.
HasSectionFor(id) ==
    \E n \in DOMAIN report.sections :
        /\ report.sections[n][1] = tasks[IndexOf(tasks, id)].name
        /\ report.sections[n][2] = tasks[IndexOf(tasks, id)].result

(* C11: from the six-task fallback tree the run terminates; with every      *)
(* executor call returning a non-empty text it ends with all six tasks      *)
(* completed and a report section for each of the technical, news, risk and *)
(* report tasks; the report task is dispatched only when technical, news    *)
(* and risk are completed.                                                  *)
C11_FallbackRunCompletes ==
    /\ <>(pc = "done")
    /\ [](pc # "planning" =>
            /\ Len(tasks) = 6
            /\ (pc = "batch" /\ tasks[ready[k]].id = "report_generation") =>
                  \A id \in {"technical_analysis", "news_analysis", "risk_assessment"} :
                      tasks[IndexOf(tasks, id)].status = "completed"
            /\ (pc = "done" /\ AllCallsSucceeded) =>
                  /\ \A i \in DOMAIN tasks : tasks[i].status = "completed"
                  /\ \A i \in DOMAIN tasks : tasks[i].id # "root" => executed[i] # {}
                  /\ \A id \in {"technical_analysis", "news_analysis",
                                "risk_assessment", "report_generation"} :
                        HasSectionFor(id))

\* The fallback run is over and every executor call returned a text.
C11_Witness ==
    /\ pc = "done"
    /\ Len(tasks) = 6
    /\ AllCallsSucceeded
    /\ executed[6] # {}
    /\ Len(report.sections) = 5

----------------------------------------------------------------------------
(* The workflow on a well-formed plan A -> B -> C *)

\* Plan texts with subtasks A (no dependencies), B (depends on A) and C
\* (depends on B): bare or inside prose, with or without a blank before
\* the dependency id.
ChainPlans ==
    {[form |-> f, has_tasks |-> TRUE,
      elems |-> <<Elem("A", <<>>), Elem("B", <<a>>), Elem("C", <<b>>)>>] :
        f \in {"xml", "embedded"}, a \in {"A", " A"}, b \in {"B", " B"}}

ChainInit ==
    /\ plan \in ChainPlans
    /\ tasks = <<>>
    /\ pc = "planning"
    /\ ready = <<>>
    /\ k = 0
    /\ stage = "start"
    /\ report = NoReport
    /\ executed = <<>>
    /\ updates = 0

ChainSpec == ChainInit /\ [][Next]_vars

\* The ids of the tasks get_ready_tasks returns on the current tree.
ReadyIds == {tasks[i].id : i \in Range(get_ready_tasks(tasks))}

\* The tasks with these ids are completed, all the others pending.
CompletedAre(ids) ==
    \A i \in DOMAIN tasks :
        tasks[i].status = (IF tasks[i].id \in ids THEN "completed" ELSE "pending")

(* C12 as stated: on the tree parsed from the plan A -> B -> C,             *)
(* get_ready_tasks returns exactly {A} on the fresh tree, {B} after A is    *)
(* completed, {C} after B is completed, nothing after C is completed.       *)
C12_ChainReadyAsStated ==
    pc # "planning" =>
        /\ CompletedAre({}) => ReadyIds = {"A"}
        /\ (tasks[2].status = "completed" /\ tasks[3].status = "pending")
              => ReadyIds = {"B"}
        /\ (tasks[3].status = "completed" /\ tasks[4].status = "pending")
              => ReadyIds = {"C"}
        /\ tasks[4].status = "completed" => ReadyIds = {}

(* C12 amended: the parsed tree is root, A, B, C; get_ready_tasks returns   *)
(* exactly root and A on the fresh tree, exactly A once the root is         *)
(* completed, exactly B after A is completed, exactly C after B is          *)
(* completed, and nothing after C is completed; a run passes through these  *)
(* states only.                                                             *)
C12_ChainReady ==
    pc # "planning" =>
        /\ [i \in DOMAIN tasks |-> tasks[i].id] = <<"root", "A", "B", "C">>
        /\ \/ CompletedAre({}) /\ get_ready_tasks(tasks) = <<1, 2>>
           \/ CompletedAre({"root"}) /\ get_ready_tasks(tasks) = <<2>>
           \/ CompletedAre({"root", "A"}) /\ get_ready_tasks(tasks) = <<3>>
           \/ CompletedAre({"root", "A", "B"}) /\ get_ready_tasks(tasks) = <<4>>
           \/ CompletedAre({"root", "A", "B", "C"}) /\ get_ready_tasks(tasks) = <<>>

\* B is completed and the scheduler's query has returned C alone.
C12_Witness ==
    /\ pc = "batch"
    /\ ready = <<4>>
    /\ tasks[4].id = "C"
    /\ tasks[3].status = "completed"

\* The tasks reached from the set S by following declared dependencies at
\* most n more times.
RECURSIVE DepClosure(_, _, _)
DepClosure(ts, S, n) ==
    IF n = 0 THEN S
    ELSE DepClosure(ts,
                    S \cup {j \in DOMAIN ts :
                              \E i \in S : ts[j].id \in DepIds(ts[i])},
                    n - 1)

\* The tasks task i depends on, directly or transitively.
TransitiveDeps(ts, i) ==
    DepClosure(ts, {j \in DOMAIN ts : ts[j].id \in DepIds(ts[i])}, Len(ts))

----------------------------------------------------------------------------
(* The workflow on the answers that are no plan of the expected structure *)

\* A well-formed document of another vocabulary: no <tasks> element.
ForeignDocument == [form |-> "xml", has_tasks |-> FALSE, elems |-> <<>>]

\* The generator raises, the text is not parseable, a <task> lacks a field
\* element, or the document is not a plan at all.
MalformedPlans == FallbackPlans \cup {ForeignDocument}

MalformedInit ==
    /\ plan \in MalformedPlans
    /\ tasks = <<>>
    /\ pc = "planning"
    /\ ready = <<>>
    /\ k = 0
    /\ stage = "start"
    /\ report = NoReport
    /\ executed = <<>>
    /\ updates = 0

MalformedSpec == MalformedInit /\ [][Next]_vars

\* The tree is the root followed by five tasks, among them one
\* report-generation task that no task depends on and that depends,
\* directly or transitively, on every other task except the root.
FallbackWellFormed(ts) ==
    /\ Len(ts) = 6
    /\ ts[1].id = "root"
    /\ IdsDistinct(ts)
    /\ \E r \in DOMAIN ts :
          /\ ts[r].id = "report_generation"
          /\ ts[r].executor_type = "report_generator"
          /\ \A i \in DOMAIN ts : ts[r].id \notin DepIds(ts[i])
          /\ TransitiveDeps(ts, r) = DOMAIN ts \ {1, r}

(* C13 as stated: whenever the generator raises or the text is not a plan   *)
(* of the expected structure, the planner returns the fallback tree, with   *)
(* its root and its terminal report-generation task.                        *)
C13_FallbackOnEveryMalformedPlan ==
    pc # "planning" => FallbackWellFormed(tasks)

\* What the planner does return: always a tree that starts with the root;
\* the fallback tree when the generator raises, the text is not well-formed
\* or a <task> lacks a field element; the root alone for a well-formed
\* document without a <tasks> element.
PlannerReturnsFallbackOrRootOnly ==
    pc # "planning" =>
        /\ Len(tasks) >= 1
        /\ tasks[1].id = "root" /\ tasks[1].dependencies = <<>>
        /\ (\/ plan.form \in {"raise", "garbage", "broken"}
            \/ \E n \in DOMAIN plan.elems :
                 \E f \in {"id", "name", "description", "executor_type"} :
                    plan.elems[n][f] = Absent)
           => FallbackWellFormed(tasks)
        /\ (plan.form = "xml" /\ ~plan.has_tasks) => Len(tasks) = 1

\* The generator raised and the planner has returned the six-task tree.
FallbackAfterRaise ==
    /\ pc = "loop"
    /\ plan.form = "raise"
    /\ FallbackWellFormed(tasks)
    /\ \A i \in DOMAIN tasks : tasks[i].status = "pending"

----------------------------------------------------------------------------
(* C14: a subtask with a missing field *)

\* The text of a field element, None when the element is absent or empty.
FieldText(e, f) == IF e[f] = Absent \/ e[f] = "" THEN None ELSE e[f]

\* The n-th <task> element is kept, each missing field at its default.
KeptWithDefaults(t, e, n) ==
    /\ t.id = OrElse(FieldText(e, "id"), Uuid(n))
    /\ t.name = OrElse(FieldText(e, "name"), "default task")
    /\ t.description = OrElse(FieldText(e, "description"), "default description")
    /\ t.executor_type = OrElse(FieldText(e, "executor_type"), "data_collector")

(* C14: when a subtask of a parseable plan lacks its id, name, description  *)
(* or executor kind, the element being absent or empty, the returned tree   *)
(* keeps that subtask and every other one, the missing field at its fixed   *)
(* default: neither the task nor the plan is discarded.                     *)
C14_MissingFieldGetsDefault ==
    (pc # "planning" /\ plan.form = "xml" /\ plan.has_tasks) =>
        /\ Len(tasks) = 1 + Len(plan.elems)
        /\ \A n \in DOMAIN plan.elems :
              KeptWithDefaults(tasks[n + 1], plan.elems[n], n)

\* The same, for the subtasks whose field elements are all there.
MissingFieldGetsDefaultWhenElementsPresent ==
    (/\ pc # "planning" /\ plan.form = "xml" /\ plan.has_tasks
     /\ \A n \in DOMAIN plan.elems : ~FieldMissing(plan.elems[n])) =>
        /\ Len(tasks) = 1 + Len(plan.elems)
        /\ \A n \in DOMAIN plan.elems :
              KeptWithDefaults(tasks[n + 1], plan.elems[n], n)

----------------------------------------------------------------------------
(* execution_node on a task tree in any status *)

\* <task> elements with names of their own.
Named(id, dependencies) ==
    [Elem(id, dependencies) EXCEPT !.name = "task " \o id]

ReportPlans ==
    {[form |-> "xml", has_tasks |-> TRUE, elems |-> es] :
        es \in { << Named("A", <<>>), Named("B", <<"A">>) >>,
                 << Named("A", <<"X">>), Named("B", <<>>) >> }}

\* state["task_tree"]: the planner's tree after any calls of
\* update_task_status, each task in any status, with or without a result.
ReportInit ==
    /\ plan \in ReportPlans
    /\ \E st \in [1..3 -> Statuses], rs \in [1..3 -> UpdateResults] :
          tasks = [i \in 1..3 |->
                     [create_task_tree(plan, user_query)[i]
                        EXCEPT !.status = st[i], !.result = rs[i]]]
    /\ pc = "loop"
    /\ ready = <<>>
    /\ k = 0
    /\ stage = "planning_complete"
    /\ report = NoReport
    /\ executed = NoCalls(tasks)
    /\ updates = 0

ReportSpec == ReportInit /\ [][Schedule \/ Finish \/ SkipRoot \/ Dispatch]_vars

\* The tasks the claim gives a section: not the root, completed, a result
\* that is not empty.
Reported(ts) ==
    {i \in DOMAIN ts : /\ ts[i].id # "root"
                       /\ ts[i].status = "completed"
                       /\ ts[i].result \notin {None, ""}}

HasSection(ts, i) ==
    \E n \in DOMAIN report.sections :
        report.sections[n] = <<ts[i].name, ts[i].result>>

(* C15: the final report has a section for a task if and only if the task   *)
(* is not the root, is completed and has a non-empty result, one section    *)
(* each; a failed or pending task or one with an empty result has none,     *)
(* and the count of the summary counts completed tasks only.                *)
C15_SectionsIffCompletedWithResult ==
    pc = "done" =>
        /\ \A i \in DOMAIN tasks : HasSection(tasks, i) <=> i \in Reported(tasks)
        /\ Len(report.sections) = Cardinality(Reported(tasks))
        /\ report.count =
             Cardinality({i \in DOMAIN tasks :
                            /\ tasks[i].status = "completed"
                            /\ tasks[i].result \notin {None, ""}})
        /\ report.count <=
             Cardinality({i \in DOMAIN tasks : tasks[i].status = "completed"})

\* A report built on a tree with a failed task that holds a result, a
\* completed task with an empty result and a completed task with a section.
C15_Witness ==
    /\ pc = "done"
    /\ tasks[1].status = "completed" /\ tasks[1].result = ""
    /\ tasks[2].status = "failed" /\ tasks[2].result = "r"
    /\ tasks[3].status = "completed" /\ tasks[3].result = "analysis"
    /\ report.sections = << <<"task B", "analysis">> >>

----------------------------------------------------------------------------
(* C16: update_task_status, called twice, called with an unknown id *)

(* C16: update_task_status is idempotent and total: on every tree, a second *)
(* call with the same id, status and result leaves the tree as the first    *)
(* call left it, and a call with an id that no task has changes no task.    *)
C16_UpdateIdempotentAndTotal ==
    \A task_id \in UpdateIds, status \in Statuses, result \in UpdateResults :
        LET once == update_task_status(tasks, task_id, status, result) IN
        /\ update_task_status(once, task_id, status, result) = once
        /\ (\A i \in DOMAIN tasks : tasks[i].id # task_id) => once = tasks

\* One call has been made on a tree with two tasks of one id: the first of
\* them is completed with its result, the second is still pending.
C16_Witness ==
    /\ pc = "tree"
    /\ updates = 1
    /\ Len(tasks) = 3
    /\ tasks[2].id = tasks[3].id
    /\ tasks[2].status = "completed" /\ tasks[2].result = "r"
    /\ tasks[3].status = "pending" /\ tasks[3].result = None

----------------------------------------------------------------------------
(* C17: the state of a task when its turn in the batch comes *)

(* C17: when the scheduler comes to a task of the ready batch, to hand it   *)
(* to an executor or to auto-complete the root, the task is still pending   *)
(* and each of its dependencies is completed, whatever the tasks before it  *)
(* in the batch have done to the tree since the batch was computed.         *)
C17_DispatchedTaskPendingWithCompletedDeps ==
    pc = "batch" =>
        /\ k \in DOMAIN ready
        /\ tasks[ready[k]].status = "pending"
        /\ all_deps_completed(tasks, tasks[ready[k]])

\* The second task of a batch, one with a dependency, is about to be
\* dispatched after the first has been executed and completed.
C17_Witness ==
    /\ pc = "batch"
    /\ k = 2
    /\ executed[ready[1]] # {}
    /\ tasks[ready[1]].status = "completed"
    /\ tasks[ready[2]].dependencies # <<>>
    /\ tasks[ready[2]].id # "root"

----------------------------------------------------------------------------
(* C18: what a scheduling run leaves alone *)

\* The fields of a task other than status and result.
Topology(t) ==
    <<t.id, t.name, t.description, t.executor_type, t.dependencies,
      t.parameters>>

(* C18: a scheduling run changes only status and result: at every point of  *)
(* the run and at its end the tree holds the tasks the planner produced, in *)
(* the same order, each with the same id, name, description, executor       *)
(* kind, dependencies and parameters.                                       *)
C18_RunChangesOnlyStatusAndResult ==
    pc # "planning" =>
        LET planned == create_task_tree(plan, user_query) IN
        /\ Len(tasks) = Len(planned)
        /\ \A i \in DOMAIN tasks : Topology(tasks[i]) = Topology(planned[i])

\* The run has ended after executing a task with a dependency and
\* parameters, which is completed with its result.
C18_Witness ==
    /\ pc = "done"
    /\ \E i \in DOMAIN tasks :
          /\ tasks[i].dependencies # <<>>
          /\ tasks[i].parameters # <<>>
          /\ tasks[i].status = "completed"
          /\ tasks[i].result = "analysis"
          /\ executed[i] # {}

----------------------------------------------------------------------------
(* C19: dangling dependencies, tasks that depend on themselves *)

\* The task at position i names a dependency id that no task has.
Dangling(ts, i) ==
    \E d \in DepIds(ts[i]) : \A j \in DOMAIN ts : ts[j].id # d

\* The task at position i names its own id among its dependencies.
SelfDependent(ts, i) == ts[i].id \in DepIds(ts[i])

NeverRuns(i) ==
    /\ i \notin Range(get_ready_tasks(tasks))
    /\ i \notin Range(ready)
    /\ executed[i] = {}
    /\ tasks[i].status = "pending"
    /\ tasks[i].result = None

(* C19: a task with a dangling dependency or one that depends on itself is  *)
(* never returned by get_ready_tasks, never dispatched, and is pending      *)
(* with no result throughout the run and at its end.                        *)
C19_UnsatisfiableTaskNeverRuns ==
    pc # "planning" =>
        \A i \in DOMAIN tasks :
            (Dangling(tasks, i) \/ SelfDependent(tasks, i)) => NeverRuns(i)

\* The same for the trees whose ids are distinct.
UnsatisfiableTaskNeverRunsWhenIdsDistinct ==
    (pc # "planning" /\ IdsDistinct(tasks)) =>
        \A i \in DOMAIN tasks :
            (Dangling(tasks, i) \/ SelfDependent(tasks, i)) => NeverRuns(i)

\* A task with a dangling dependency is never ready and never dispatched.
DanglingTaskNeverDispatched ==
    pc # "planning" =>
        \A i \in DOMAIN tasks :
            Dangling(tasks, i) =>
                /\ i \notin Range(get_ready_tasks(tasks))
                /\ i \notin Range(ready)
                /\ executed[i] = {}

----------------------------------------------------------------------------
(* C20: one executor call at a time, in the order of the batch *)

\* The step makes no executor call, or one call, for the task at position i.
CallsOnly(i) ==
    \A j \in DOMAIN executed : j # i => executed'[j] = executed[j]

(* C20: executor calls follow the batch: the batch is fixed when the loop   *)
(* iteration starts and lists its tasks in task-list order; each step of    *)
(* the iteration handles the one task at the current position and moves to  *)
(* the next, so a task that becomes ready during the iteration is not       *)
(* dispatched before the batch is through; outside a batch no executor is   *)
(* called.                                                                  *)
C20_CallsFollowBatchOrder ==
    [][ /\ pc = "batch" =>
            /\ CallsOnly(ready[k])
            /\ \A m, n \in DOMAIN ready : m < n => ready[m] < ready[n]
            /\ IF k < Len(ready)
               THEN pc' = "batch" /\ ready' = ready /\ k' = k + 1
               ELSE pc' = "loop"
        /\ pc \in {"loop", "done"} => executed' = executed
        /\ (pc = "loop" /\ pc' = "batch") =>
              k' = 1 /\ ready' = get_ready_tasks(tasks) ]_vars

\* The second task of a batch is next while a task that is not in the batch
\* has become ready by the completion of the first.
C20_Witness ==
    /\ pc = "batch"
    /\ k = 2
    /\ tasks[ready[1]].status = "completed"
    /\ \E i \in DOMAIN tasks :
          /\ i \in Range(get_ready_tasks(tasks))
          /\ i \notin Range(ready)
          /\ tasks[ready[1]].id \in DepIds(tasks[i])

----------------------------------------------------------------------------
(* C21: the run completes what can be completed *)

\* Distinct ids, every dependency the id of a task, no cycle.
WellFormedGraph(ts) ==
    /\ IdsDistinct(ts)
    /\ \A i \in DOMAIN ts : ~Dangling(ts, i)
    /\ \A i \in DOMAIN ts : i \notin TransitiveDeps(ts, i)

NumCompleted(ts) == Cardinality({i \in DOMAIN ts : ts[i].status = "completed"})

\* Some dependency of the task at position i is the id of no completed task.
HasUncompletedDep(ts, i) ==
    \E d \in DepIds(ts[i]) :
        \A j \in DOMAIN ts : ts[j].id = d => ts[j].status # "completed"

(* C21: on a tree with distinct ids whose dependencies all name tasks and   *)
(* form no cycle, every step of a batch completes one more task and every   *)
(* loop head starts a batch or ends the run, so the run ends, and it ends   *)
(* with every task completed (no executor call raises out of the executor); *)
(* on any tree, when the loop has exited every task still pending has a     *)
(* dependency that is not completed: no ready task is left unexecuted.      *)
C21_RunCompletesEveryReachableTask ==
    /\ [](pc = "done" =>
            /\ WellFormedGraph(tasks) =>
                  \A i \in DOMAIN tasks : tasks[i].status = "completed"
            /\ \A i \in DOMAIN tasks :
                  tasks[i].status = "pending" => HasUncompletedDep(tasks, i))
    /\ [][ (pc # "planning" /\ WellFormedGraph(tasks)) =>
              /\ pc = "batch" =>
                    /\ NumCompleted(tasks') = NumCompleted(tasks) + 1
                    /\ tasks'[ready[k]].status = "completed"
              /\ pc = "loop" =>
                    \/ pc' = "batch" /\ ready' # <<>>
                    \/ pc' = "done" /\ NumCompleted(tasks) = Len(tasks) ]_vars

\* A run on a well-formed tree has ended: a task with a dependency was
\* executed after its provider, whose agent call raised, and both are
\* completed.
C21_Witness ==
    /\ pc = "done"
    /\ plan.form = "xml"
    /\ Len(tasks) = 3
    /\ WellFormedGraph(tasks)
    /\ tasks[2].id \in DepIds(tasks[3])
    /\ \E o \in executed[2] : o.raised
    /\ executed[3] # {}
    /\ \A i \in DOMAIN tasks : tasks[i].status = "completed"

\* A run has ended with a task left pending behind a dependency that never
\* completes.
C21_PendingAtExit ==
    /\ pc = "done"
    /\ \E i \in DOMAIN tasks :
          tasks[i].status = "pending" /\ HasUncompletedDep(tasks, i)

----------------------------------------------------------------------------
(* execution_node on a tree in which tasks have status failed *)

\* Plans with distinct ids: a chain A <- B <- C beside an unrelated D, and
\* C waiting for both A and B with D waiting for C.
FailPlans ==
    {[form |-> "xml", has_tasks |-> TRUE, elems |-> es] :
        es \in { << Elem("A", <<>>), Elem("B", <<"A">>),
                    Elem("C", <<"B">>), Elem("D", <<>>) >>,
                 << Elem("A", <<>>), Elem("B", <<>>),
                    Elem("C", <<"A", " B">>), Elem("D", <<"C">>) >> }}

\* state["task_tree"]: the planner's tree after update_task_status(id,
\* "failed", text) for a set of subtasks none of which waits for another
\* of the set (a status is assigned to a task at its dispatch only, so a
\* task behind a failed one has not been given one); the others pending.
FailedInit ==
    /\ plan \in FailPlans
    /\ \E F \in SUBSET (2..5) :
          /\ \A i \in F :
                F \cap TransitiveDeps(create_task_tree(plan, user_query), i) = {}
          /\ tasks = [i \in 1..5 |->
                     IF i \in F
                     THEN [create_task_tree(plan, user_query)[i]
                             EXCEPT !.status = "failed", !.result = "error"]
                     ELSE create_task_tree(plan, user_query)[i]]
    /\ pc = "loop"
    /\ ready = <<>>
    /\ k = 0
    /\ stage = "planning_complete"
    /\ report = NoReport
    /\ executed = NoCalls(tasks)
    /\ updates = 0

FailedSpec == FailedInit /\ [][Schedule \/ Finish \/ SkipRoot \/ Dispatch]_vars

\* The task at position i depends, directly or transitively, on a task
\* that has status failed.
BehindFailed(ts, i) ==
    \E j \in TransitiveDeps(ts, i) : ts[j].status = "failed"

====
